---------------------------- MODULE Spec2Model ----------------------------
(***************************************************************************)
(* Model of the Oasis Fortune API (src/oasis_api_cloud/main.py).           *)
(*                                                                         *)
(* The service is stateless: every request is handled by one synchronous   *)
(* handler.  A behaviour of the model is one request: Init draws the       *)
(* request from the bounded request sets below, and the handler of its     *)
(* endpoint computes the response (or ends in an unhandled exception).     *)
(*                                                                         *)
(* Representation                                                          *)
(*   - a Python str is a sequence of one-character strings;                *)
(*   - bytes are a sequence of 0..255;                                     *)
(*   - a float in [0,1] computed by analyze_image_basic is the exact       *)
(*     rational value, held as an integer number of 1/One units;         *)
(*   - a value rounded to 3 decimals is an integer number of 1/1000,       *)
(*     a trait rounded to 2 decimals an integer number of 1/100;           *)
(*   - round() at an exact tie of the rational value depends on the        *)
(*     binary representation of the float: both neighbours are outcomes.   *)
(***************************************************************************)
EXTENDS Integers, Sequences, FiniteSets, TLC

VARIABLES pc, request, response, locals

vars == <<pc, request, response, locals>>

----------------------------------------------------------------------------
(* Bounds of the model *)

\* image_base64 strings are concatenations of at most MaxTokens tokens
MaxTokens == 4
\* birth_ts strings are concatenations of at most MaxTsTokens tokens
MaxTsTokens == 3
\* number of grid steps over the mean grey / mean edge / width / height ranges
Steps == 6
\* number of grid steps over [0,1] for the clarity and quality of a ComposeInput
Grid == 40

----------------------------------------------------------------------------
(* Strings *)

RECURSIVE Flatten(_)
Flatten(toks) ==
    IF toks = <<>> THEN <<>> ELSE Head(toks) \o Flatten(Tail(toks))

\* all tuples of at most n elements of S
RECURSIVE TuplesUpTo(_, _)
TuplesUpTo(S, n) ==
    IF n = 0 THEN {<<>>}
    ELSE LET shorter == TuplesUpTo(S, n - 1)
         IN  shorter \cup {Append(t, x) : t \in shorter, x \in S}

\* str.startswith
StartsWith(s, prefix) ==
    /\ Len(s) >= Len(prefix)
    /\ SubSeq(s, 1, Len(prefix)) = prefix

\* index of the first occurrence of character c in s at or after i, 0 if none
RECURSIVE Find(_, _, _)
Find(s, c, i) ==
    IF i > Len(s) THEN 0
    ELSE IF s[i] = c THEN i
    ELSE Find(s, c, i + 1)

\* str.split(sep, 1): a list of one or two strings
SplitOnce(s, sep) ==
    LET i == Find(s, sep, 1)
    IN  IF i = 0 THEN <<s>>
        ELSE <<SubSeq(s, 1, i - 1), SubSeq(s, i + 1, Len(s))>>

\* str.replace(old, new) for a one-character old
RECURSIVE Replace(_, _, _)
Replace(s, old, new) ==
    IF s = <<>> THEN <<>>
    ELSE (IF Head(s) = old THEN new ELSE <<Head(s)>>) \o Replace(Tail(s), old, new)

----------------------------------------------------------------------------
(* base64.b64decode(s), validate=False: binascii.a2b_base64, non-strict *)

\* table_a2b_base64 on the characters the model draws; 64 is "not in the alphabet"
B64Value(c) ==
    CASE c = "A" -> 0
      [] c = "Q" -> 16
      [] c = "a" -> 26
      [] c = "d" -> 29
      [] c = "t" -> 45
      [] OTHER   -> 64

BinasciiError == [ok |-> FALSE, exc |-> "binascii.Error"]

\* the decoding loop from position i on: quad_pos, leftchar, pads and the bytes so far
RECURSIVE A2bLoop(_, _, _, _, _, _)
A2bLoop(s, i, quad_pos, leftchar, pads, out) ==
    IF i > Len(s)
    THEN IF quad_pos # 0 THEN BinasciiError ELSE [ok |-> TRUE, bytes |-> out]
    ELSE IF s[i] = "="
    THEN IF quad_pos >= 2 /\ quad_pos + pads + 1 >= 4
         THEN [ok |-> TRUE, bytes |-> out]
         ELSE A2bLoop(s, i + 1, quad_pos, leftchar,
                      IF quad_pos >= 2 THEN pads + 1 ELSE pads, out)
    ELSE LET v == B64Value(s[i])
         IN  IF v >= 64 THEN A2bLoop(s, i + 1, quad_pos, leftchar, pads, out)
             ELSE CASE quad_pos = 0 ->
                         A2bLoop(s, i + 1, 1, v, 0, out)
                    [] quad_pos = 1 ->
                         A2bLoop(s, i + 1, 2, v % 16, 0,
                                 Append(out, leftchar * 4 + v \div 16))
                    [] quad_pos = 2 ->
                         A2bLoop(s, i + 1, 3, v % 4, 0,
                                 Append(out, leftchar * 16 + v \div 4))
                    [] quad_pos = 3 ->
                         A2bLoop(s, i + 1, 0, 0, 0,
                                 Append(out, leftchar * 64 + v))

b64decode(s) == A2bLoop(s, 1, 0, 0, 0, <<>>)

\* _decode_b64(data): the bytes, or the exception base64.b64decode raises
DataPrefix == <<"d", "a", "t", "a", ":">>

SplitsAlways(data) == TRUE

HasDataPrefix(data) == StartsWith(data, DataPrefix)

decode_b64(data) ==
    IF data = <<>> THEN [ok |-> TRUE, bytes |-> <<>>]
    ELSE LET parts == SplitOnce(data, ",")
             b64 == IF HasDataPrefix(data)
                    THEN (IF Len(parts) = 2 THEN parts[2] ELSE data)
                    ELSE data
         IN  b64decode(b64)

----------------------------------------------------------------------------
(* Fixed-point arithmetic of analyze_image_basic *)

\* One is 1.0: every quotient the function forms on the model's inputs is a
\* whole number of 1/One (510 | One, 340 | One, 1280*720 | One, 10 | One)
One == 1280 * 720 * 170

\* ImageStat means are drawn in half grey levels: FullMean is the mean 255.0
FullMean == 2 * 255

Abs(x) == IF x < 0 THEN 0 - x ELSE x
Min(a, b) == IF a < b THEN a ELSE b
Max(a, b) == IF a > b THEN a ELSE b

\* the value left as it is
NoClamp(x) == x

\* max(0.0, min(1.0, x))
Clamp01(x) == Max(0, Min(One, x))

\* round(x, ndigits): x in units of 1/den, result in units of 1/(den \div unit).
\* The set of possible results: the nearest one, both neighbours at an exact tie.
RoundTo(x, unit) ==
    LET q == x \div unit
        r == x % unit
    IN  IF 2 * r < unit THEN {q}
        ELSE IF 2 * r > unit THEN {q + 1}
        ELSE {q, q + 1}

\* line 113: brightness = max(0.0, min(1.0, stat.mean[0] / 255.0))
Brightness(gray2) == Clamp01(gray2 * (One \div FullMean))

\* line 119: sharp = max(0.0, min(1.0, (e_stat.mean[0] / 255.0) * 1.5))
SharpUnclamped(edge2) == edge2 * ((One \div FullMean) \div 2) * 3

Sharp(edge2) == Clamp01(edge2 * ((One \div FullMean) \div 2) * 3)

\* line 122: res_score = max(0.0, min(1.0, (w * h) / (1280 * 720)))
ResScore(w, h) ==
    IF w * h >= 1280 * 720 THEN One
    ELSE Clamp01((w * h) * (One \div (1280 * 720)))

\* lines 125-126: exposure_score = clamp(1.0 - abs(brightness - 0.5) * 2.0)
ExposureFlat(brightness) == One

ExposureScore(brightness) ==
    Clamp01(One - Abs(brightness - One \div 2) * 2)

\* lines 129-130: quality = clamp(0.5 * sharp + 0.3 * res_score + 0.2 * exposure_score)
QualityInverted(sharp, res_score, exposure_score) ==
    Clamp01((5 * (One - sharp) + 3 * (One - res_score) + 2 * exposure_score) \div 10)

Quality(sharp, res_score, exposure_score) ==
    Clamp01((5 * sharp + 3 * res_score + 2 * exposure_score) \div 10)

\* the local variables of analyze_image_basic when it reaches its return
ImageLocals(img) ==
    LET brightness == Brightness(img.gray2)
        sharp == Sharp(img.edge2)
        res_score == ResScore(img.w, img.h)
        exposure_score == ExposureScore(brightness)
    IN  [brightness |-> brightness, sharp |-> sharp, res_score |-> res_score,
         exposure_score |-> exposure_score,
         quality |-> Quality(sharp, res_score, exposure_score)]

NoLocals == [none |-> TRUE]

\* line 105: the record returned when the decoded bytes are empty
Sentinel == [img_w |-> 0, img_h |-> 0, brightness |-> 500, sharpness |-> 500,
             quality |-> 500]

\* lines 132-138: the records the return statement can build from the locals
Statistics(img, l) ==
    {[img_w |-> img.w, img_h |-> img.h, brightness |-> b, sharpness |-> s,
      quality |-> q] :
        b \in RoundTo(l.brightness, One \div 1000),
        s \in RoundTo(l.sharp, One \div 1000),
        q \in RoundTo(l.quality, One \div 1000)}

\* a variant that answers an undecodable image with the sentinel record
analyze_image_guarded(image_b64, pil) ==
    LET raw == decode_b64(image_b64)
    IN  IF ~raw.ok THEN {[ok |-> FALSE, exc |-> raw.exc, locals |-> [raw |-> raw]]}
        ELSE IF raw.bytes = <<>> \/ ~pil.valid
        THEN {[ok |-> TRUE, m |-> Sentinel, locals |-> [raw |-> raw]]}
        ELSE {[ok |-> TRUE, m |-> m, locals |-> [raw |-> raw] @@ ImageLocals(pil)] :
                 m \in Statistics(pil, ImageLocals(pil))}

\* analyze_image_basic(image_b64), pil being what PIL makes of the decoded
\* bytes (the model does not derive the picture from the bytes' content).
\* The set of outcomes: [ok, m, locals] on return, [ok, exc, locals] on an
\* exception; locals are the function's local variables at that point.
analyze_image_basic(image_b64, pil) ==
    LET raw == decode_b64(image_b64)
    IN  IF ~raw.ok THEN {[ok |-> FALSE, exc |-> raw.exc, locals |-> [raw |-> raw]]}
        ELSE IF raw.bytes = <<>>
        THEN {[ok |-> TRUE, m |-> Sentinel, locals |-> [raw |-> raw]]}
        ELSE IF ~pil.valid
        THEN {[ok |-> FALSE, exc |-> "PIL.UnidentifiedImageError",
               locals |-> [raw |-> raw]]}
        ELSE {[ok |-> TRUE, m |-> m, locals |-> [raw |-> raw] @@ ImageLocals(pil)] :
                 m \in Statistics(pil, ImageLocals(pil))}

\* lines 178-184: the trait scores in 1/100, from statistics m in 1/1000.
\* Each affine map is formed in units of 1/10000 and rounded to 2 decimals.
Traits(m) ==
    {[clarity |-> c, stability |-> st, sociality |-> so, determination |-> d,
      resilience |-> r] :
        c \in RoundTo(5000 + (m.sharpness - 500) * 8, 100),
        st \in RoundTo(5000 + (500 - Abs(m.brightness - 500)) * 6, 100),
        so \in RoundTo(5000 + (m.brightness - 500) * 4, 100),
        d \in RoundTo(5000 + (m.sharpness - 500) * 5, 100),
        r \in RoundTo(5000 + (m.quality - 500) * 6, 100)}

----------------------------------------------------------------------------
(* datetime.fromisoformat (CPython 3.11, _datetime) on "YYYY-MM-DD[*time]" *)

Digits == <<"0", "1", "2", "3", "4", "5", "6", "7", "8", "9">>

\* the character at p, "NUL" past the end (the C string's terminator)
CharAt(s, p) == IF p >= 1 /\ p <= Len(s) THEN s[p] ELSE "NUL"

DigitValue(c) == IF \E d \in 1..10 : Digits[d] = c
                 THEN (CHOOSE d \in 1..10 : Digits[d] = c) - 1
                 ELSE -1

\* parse_digits: the value of the n digits at p, -1 if one is not a digit
RECURSIVE ParseDigits(_, _, _)
ParseDigits(s, p, n) ==
    IF n = 0 THEN 0
    ELSE LET high == ParseDigits(s, p, n - 1)
             d == DigitValue(CharAt(s, p + n - 1))
         IN  IF high < 0 \/ d < 0 THEN -1 ELSE high * 10 + d

IsLeap(year) == year % 4 = 0 /\ (year % 100 # 0 \/ year % 400 = 0)

DaysInMonth(year, month) ==
    IF month = 2 THEN (IF IsLeap(year) THEN 29 ELSE 28)
    ELSE IF month \in {4, 6, 9, 11} THEN 30 ELSE 31

\* parse_hh_mm_ss_ff on s[p .. p_end - 1]: rv < 0 is an error, rv = 1 says
\* that a character followed the last field; vals are hour, minute, second
RECURSIVE ParseHhMmSs(_, _, _, _, _, _)
ParseHhMmSs(s, p, p_end, i, has_separator, vals) ==
    IF i = 3
    THEN LET remains == IF p_end - p >= 6 THEN 6
                        ELSE IF p_end - p < 0 THEN 0 ELSE p_end - p
         IN  IF ParseDigits(s, p, remains) < 0 THEN [rv |-> -3, vals |-> vals]
             ELSE [rv |-> IF CharAt(s, p + remains) # "NUL" THEN 1 ELSE 0,
                   vals |-> vals]
    ELSE LET d == ParseDigits(s, p, 2)
             c == CharAt(s, p + 2)
             q == p + 3
             sep == IF i = 0 THEN c = ":" ELSE has_separator
             got == [vals EXCEPT ![i + 1] = d]
         IN  IF d < 0 THEN [rv |-> -3, vals |-> vals]
             ELSE IF q >= p_end
             THEN [rv |-> IF c # "NUL" THEN 1 ELSE 0, vals |-> got]
             ELSE IF sep /\ c = ":"
             THEN ParseHhMmSs(s, q, p_end, i + 1, sep, got)
             ELSE IF c \in {".", ","}
             THEN ParseHhMmSs(s, q, p_end, 3, sep, got)
             ELSE IF ~sep
             THEN ParseHhMmSs(s, q - 1, p_end, i + 1, sep, got)
             ELSE [rv |-> -4, vals |-> got]

\* the first position at or after p holding "Z", "+" or "-", Len(s)+1 if none
RECURSIVE TzInfoPos(_, _)
TzInfoPos(s, p) ==
    IF p > Len(s) THEN Len(s) + 1
    ELSE IF s[p] \in {"Z", "+", "-"} THEN p
    ELSE TzInfoPos(s, p + 1)

InRangeTime(v) == v[1] < 24 /\ v[2] < 60 /\ v[3] < 60

\* parse_isoformat_time from position p on, and the range checks of the
\* datetime and timezone constructors: TRUE when the time part is accepted
TimeAccepted(s, p) ==
    LET tz == TzInfoPos(s, p)
        t == ParseHhMmSs(s, p, tz, 0, TRUE, <<0, 0, 0>>)
        o == ParseHhMmSs(s, tz + 1, Len(s) + 1, 0, TRUE, <<0, 0, 0>>)
    IN  IF t.rv < 0 \/ ~InRangeTime(t.vals) THEN FALSE
        ELSE IF tz = Len(s) + 1 THEN t.rv = 0
        ELSE IF s[tz] = "Z" THEN tz = Len(s)
        ELSE o.rv = 0 /\ o.vals[1] * 3600 + o.vals[2] * 60 + o.vals[3] < 86400

ValueError == [ok |-> FALSE, exc |-> "ValueError"]

\* datetime.fromisoformat(s).year, or the ValueError raised
FromIsoFormat(s) ==
    LET year == ParseDigits(s, 1, 4)
        month == ParseDigits(s, 6, 2)
        day == ParseDigits(s, 9, 2)
    IN  IF Len(s) < 10 \/ year < 0 \/ month < 0 \/ day < 0
           \/ s[5] # "-" \/ s[8] # "-"
        THEN ValueError
        ELSE IF year < 1 \/ month < 1 \/ month > 12
                \/ day < 1 \/ day > DaysInMonth(year, month)
        THEN ValueError
        ELSE IF Len(s) > 10 /\ ~TimeAccepted(s, 12)
        THEN ValueError
        ELSE [ok |-> TRUE, year |-> year]

----------------------------------------------------------------------------
(* compute_saju *)

\* line 150: the reference year when birth_ts does not parse
DefaultYear == 1990

UtcOffset == <<"+", "0", "0", ":", "0", "0">>

\* lines 147-150
ReferenceYear(birth_ts) ==
    LET parsed == FromIsoFormat(Replace(birth_ts, "Z", UtcOffset))
    IN  IF parsed.ok THEN parsed.year ELSE DefaultYear

\* lines 151-156 (stems and branches transliterated)
Pillars ==
    [year  |-> [heavenly_stem |-> "jia", earthly_branch |-> "zi",
                hidden_stems |-> <<"gui">>],
     month |-> [heavenly_stem |-> "bing", earthly_branch |-> "yin",
                hidden_stems |-> <<"jia", "bing", "wu">>],
     day   |-> [heavenly_stem |-> "xin", earthly_branch |-> "si",
                hidden_stems |-> <<"bing", "geng", "wu">>],
     hour  |-> [heavenly_stem |-> "ren", earthly_branch |-> "wu",
                hidden_stems |-> <<"ding", "ji">>]]

\* line 157
Elements == [wood |-> 3, fire |-> 2, earth |-> 2, metal |-> 1, water |-> 2]

\* line 158: round((wood + water) / 10.0, 2), in 1/100
Strength == (Elements.wood + Elements.water) * 10

\* line 159
Yongshin == IF Strength > 50 THEN <<"fire", "earth">> ELSE <<"wood", "water">>

\* a timeline whose periods start a year early
LuckShifted(year) ==
    <<[start_year |-> year, end_year |-> year + 9, tag |-> "opportunity",
       notes |-> "turning point"],
      [start_year |-> year + 10, end_year |-> year + 19, tag |-> "neutral",
       notes |-> ""]>>

\* lines 160-163
Luck(year) ==
    <<[start_year |-> year + 1, end_year |-> year + 10, tag |-> "opportunity",
       notes |-> "turning point"],
      [start_year |-> year + 11, end_year |-> year + 20, tag |-> "neutral",
       notes |-> ""]>>

\* lines 164-171
SajuResult(birth_ts) ==
    [status |-> "ok",
     pillars |-> Pillars,
     ten_gods |-> [to_day |-> "pian cai", to_month |-> "zheng guan"],
     strength_score |-> Strength,
     elements |-> Elements,
     yongshin_candidates |-> Yongshin,
     luck_timeline |-> Luck(ReferenceYear(birth_ts))]

----------------------------------------------------------------------------
(* compose_report (texts translated; each literal of the source is one string) *)

OpportunitySummary == "Focus is well supported. Catch prepared opportunities quickly."
CautionSummary == "A period for regrouping. Slow down and build the foundation."
NeutralSummary == "A turning point where timing matters. Avoid overexpansion."

OpportunityActions == <<"attend key decision meetings in person",
                        "write a clear message for content and branding">>
CautionActions == <<"run a risk review week", "verify signals with small experiments">>
NeutralActions == <<"monthly review with key partners">>

\* line 215: the two actions appended for every input
UniversalActions == <<"cut the top 2 expense items by 15%",
                      "30 minutes of aerobic exercise twice a week">>

\* lines 208-214
Sections ==
    [personality |-> "Initiative and caution coexist; suited to a coordinator role.",
     relationships |-> "Guarded at first, strong bonds once trust is formed.",
     business |-> "Partnerships in the first half, own brand in the second half.",
     wealth |-> "Cut 1-2 spending categories and build a cash reserve.",
     health |-> "Keep a sleep rhythm and do light aerobic exercise."]

\* line 216
Disclaimer == "For reference only; not a basis for medical, legal or financial decisions."

\* dict.get(key, default)
Get(d, key, default) == IF key \in DOMAIN d THEN d[key] ELSE default

\* list(dict.fromkeys(xs)): the first occurrence of every entry, in order
RECURSIVE Dedup(_)
Dedup(xs) ==
    IF xs = <<>> THEN <<>>
    ELSE LET front == Dedup(SubSeq(xs, 1, Len(xs) - 1))
             last == xs[Len(xs)]
         IN  IF \E i \in 1..Len(front) : front[i] = last
             THEN front ELSE Append(front, last)

\* line 195: clarity = float(input.face.traits.get("clarity", 0.5)), in 1/1000
Clarity(face) == Get(face.traits, "clarity", 500)

\* line 196: quality = float(input.face.quality or 0.5), in 1/1000
QualityOrDefault(face) == IF face.quality = 0 THEN 500 ELSE face.quality

\* lines 198-206: the summary and add_actions of the branch taken
Template(clarity, quality) ==
    IF clarity >= 700 /\ quality >= 650
    THEN [summary |-> OpportunitySummary, add_actions |-> OpportunityActions]
    ELSE IF quality < 450
    THEN [summary |-> CautionSummary, add_actions |-> CautionActions]
    ELSE [summary |-> NeutralSummary, add_actions |-> NeutralActions]

\* the universal actions put first
ActionsUniversalFirst(add_actions) == Dedup(UniversalActions \o add_actions)

\* line 215
Actions(add_actions) == Dedup(add_actions \o UniversalActions)

\* lines 193-217
Report(face) ==
    LET t == Template(Clarity(face), QualityOrDefault(face))
    IN  [status |-> "ok", summary |-> t.summary, sections |-> Sections,
         actions |-> Actions(t.add_actions), disclaimer |-> Disclaimer]

----------------------------------------------------------------------------
(* The requests the model draws *)

\* FaceInput.image_base64: concatenations of these pieces
B64Tokens == {DataPrefix, <<",">>, <<"A">>, <<"Q", "Q">>, <<"=">>, <<" ">>}

B64Strings == {Flatten(t) : t \in TuplesUpTo(B64Tokens, MaxTokens)}

\* what PIL makes of the decoded bytes: not an image, or a picture of
\* w x h pixels whose mean grey level is gray2/2 and mean edge level edge2/2
PilInvalid == [valid |-> FALSE]

Widths == {1, 1280} \cup {(1920 * i) \div Steps : i \in 1..Steps}
Heights == {1, 720} \cup {(1080 * i) \div Steps : i \in 1..Steps}
GrayVals == {254, 255, 256} \cup {(FullMean * i) \div Steps : i \in 0..Steps}
EdgeVals == {339, 340, 341} \cup {(FullMean * i) \div Steps : i \in 0..Steps}

\* a mean is a sum of whole pixel values over w * h pixels, and an all-black
\* picture has no edges
PilPossible(img) ==
    /\ (img.w * img.h) % 2 = 0 \/ (img.gray2 % 2 = 0 /\ img.edge2 % 2 = 0)
    /\ img.gray2 = 0 => img.edge2 = 0

Images ==
    {img \in [valid : {TRUE}, w : Widths, h : Heights, gray2 : GrayVals,
              edge2 : EdgeVals] : PilPossible(img)}

SampleImage == [valid |-> TRUE, w |-> 1280, h |-> 720, gray2 |-> 255, edge2 |-> 170]

ImagePayload == <<"Q", "Q", "Q", "Q">>

FaceRequests ==
    {[endpoint |-> "face", image_base64 |-> s, pil |-> p] :
        s \in B64Strings, p \in {PilInvalid, SampleImage}}
    \cup {[endpoint |-> "face", image_base64 |-> ImagePayload, pil |-> p] : p \in Images}

\* SajuInput.birth_ts: concatenations of these pieces
TsTokens ==
    {<<"2", "0", "0", "0", "-", "0", "1", "-", "0", "1">>,
     <<"1", "9", "8", "4", "-", "0", "2", "-", "2", "9">>,
     <<"1", "9", "8", "5", "-", "0", "2", "-", "2", "9">>,
     <<"T">>, <<"Z">>, <<"x">>,
     <<"1", "2", ":", "3", "0">>,
     <<"+", "0", "9", ":", "0", "0">>}

SajuRequests ==
    {[endpoint |-> "saju", birth_ts |-> Flatten(t)] : t \in TuplesUpTo(TsTokens, MaxTsTokens)}

\* ComposeInput.face: quality and the clarity trait in 1/1000, clarity may be absent
ScoreVals == {449, 450, 451, 649, 650, 651, 699, 700, 701}
                 \cup {(1000 * i) \div Grid : i \in 0..Grid}

ComposeRequests ==
    {[endpoint |-> "report", face |-> [quality |-> q, traits |-> [clarity |-> c]]] :
        q \in ScoreVals, c \in ScoreVals}
    \cup {[endpoint |-> "report", face |-> [quality |-> q, traits |-> [stability |-> 500]]] :
        q \in ScoreVals}

Requests == FaceRequests \cup SajuRequests \cup ComposeRequests

----------------------------------------------------------------------------
(* The state machine: one request, handled once *)

NoResponse == [status |-> "none"]

Init ==
    /\ pc = "received"
    /\ request \in Requests
    /\ response = NoResponse
    /\ locals = NoLocals

\* POST /v1/saju/compute
compute_saju ==
    /\ pc = "received"
    /\ request.endpoint = "saju"
    /\ response' = SajuResult(request.birth_ts)
    /\ pc' = "responded"
    /\ UNCHANGED <<request, locals>>

\* lines 185-190: the FaceResult built from the statistics m and traits t
FaceResult(m, t) ==
    [status |-> "ok", quality |-> m.quality,
     features |-> [img_w |-> m.img_w, img_h |-> m.img_h,
                   brightness |-> m.brightness, sharpness |-> m.sharpness],
     traits |-> t]

\* POST /v1/face/extract; an exception of analyze_image_basic is not caught
extract_face ==
    /\ pc = "received"
    /\ request.endpoint = "face"
    /\ \E a \in analyze_image_basic(request.image_base64, request.pil) :
          /\ locals' = a.locals
          /\ IF a.ok
             THEN /\ \E t \in Traits(a.m) : response' = FaceResult(a.m, t)
                  /\ pc' = "responded"
             ELSE /\ response' = [status |-> "error", exc |-> a.exc]
                  /\ pc' = "failed"
    /\ UNCHANGED request

\* POST /v1/report/compose
compose_report ==
    /\ pc = "received"
    /\ request.endpoint = "report"
    /\ response' = Report(request.face)
    /\ pc' = "responded"
    /\ UNCHANGED <<request, locals>>

Next == compute_saju \/ extract_face \/ compose_report

Spec == Init /\ [][Next]_vars

----------------------------------------------------------------------------
(* Properties *)

Handled(endpoint) == pc # "received" /\ request.endpoint = endpoint

Answered(endpoint) == pc = "responded" /\ request.endpoint = endpoint

\* the face request was answered from a decoded picture
FromImage == Answered("face") /\ "quality" \in DOMAIN locals

HasDuplicate(xs) == \E i, j \in 1..Len(xs) : i # j /\ xs[i] = xs[j]

\* C1: compose_report picks its template by the first matching rule on the
\* request's clarity (0.5 when the trait is missing) and quality: clarity >=
\* 0.7 and quality >= 0.65 give the opportunity summary with 2 specific
\* actions, otherwise quality < 0.45 gives the caution summary with 2
\* specific actions, otherwise the neutral summary with 1 default action;
\* for every quality in [0,1], quality = 0 included.
C1_TemplateByFirstMatch ==
    Answered("report") =>
        LET clarity == IF "clarity" \in DOMAIN request.face.traits
                       THEN request.face.traits.clarity ELSE 500
            quality == request.face.quality
            specific == Len(response.actions) - 2
        IN  IF clarity >= 700 /\ quality >= 650
            THEN response.summary = OpportunitySummary /\ specific = 2
            ELSE IF quality < 450
            THEN response.summary = CautionSummary /\ specific = 2
            ELSE response.summary = NeutralSummary /\ specific = 1

\* C2: the actions of a report hold no duplicate and are the specific actions
\* of the branch taken, in order, followed by the two universal actions, in
\* order (4 entries on the opportunity and caution branches, 3 on the
\* neutral one); sections and disclaimer are the same for every input.
C2_ActionsAndFixedText ==
    Answered("report") =>
        LET universal == <<"cut the top 2 expense items by 15%",
                           "30 minutes of aerobic exercise twice a week">>
            n == Len(response.actions)
            specific == SubSeq(response.actions, 1, n - 2)
        IN  /\ ~HasDuplicate(response.actions)
            /\ n >= 2
            /\ SubSeq(response.actions, n - 1, n) = universal
            /\ response.summary = OpportunitySummary =>
                   n = 4 /\ specific = OpportunityActions
            /\ response.summary = CautionSummary =>
                   n = 4 /\ specific = CautionActions
            /\ response.summary = NeutralSummary =>
                   n = 3 /\ specific = NeutralActions
            /\ response.summary \in {OpportunitySummary, CautionSummary, NeutralSummary}
            /\ response.sections = Sections
            /\ DOMAIN response.sections =
                   {"personality", "relationships", "business", "wealth", "health"}
            /\ response.disclaimer = Disclaimer

C2_Witness ==
    /\ Answered("report")
    /\ response.summary = NeutralSummary
    /\ Len(response.actions) = 3
    /\ request.face.quality >= 450

IsBlank(s) == \A i \in 1..Len(s) : s[i] = " "

\* the text base64 is asked to decode: after the data-URL header, if any
PayloadOf(s) ==
    IF StartsWith(s, <<"d", "a", "t", "a", ":">>) /\ Find(s, ",", 1) > 0
    THEN SubSeq(s, Find(s, ",", 1) + 1, Len(s)) ELSE s

Unparseable(s) == ~b64decode(PayloadOf(s)).ok

\* C3: an image_base64 that is empty, blank or that base64 cannot parse is
\* answered, without an exception, from the sentinel statistics
\* width 0, height 0, brightness 0.5, sharpness 0.5, quality 0.5.
C3_SentinelOnBadInput ==
    (/\ Handled("face")
     /\ \/ request.image_base64 = <<>>
        \/ IsBlank(request.image_base64)
        \/ Unparseable(request.image_base64))
    => /\ pc = "responded"
       /\ response.quality = 500
       /\ response.features =
              [img_w |-> 0, img_h |-> 0, brightness |-> 500, sharpness |-> 500]

AfterFirstComma(s) ==
    LET i == CHOOSE k \in 1..Len(s) : s[k] = "," /\ \A j \in 1..(k - 1) : s[j] # ","
    IN  SubSeq(s, i + 1, Len(s))

HasComma(s) == \E k \in 1..Len(s) : s[k] = ","

\* C4 as claimed: a non-empty string with a comma is decoded from the part
\* after its first comma, whatever it starts with; one without a comma is
\* decoded whole.
C4_SplitOnAnyComma ==
    (Handled("face") /\ request.image_base64 # <<>>) =>
        locals.raw = b64decode(IF HasComma(request.image_base64)
                               THEN AfterFirstComma(request.image_base64)
                               ELSE request.image_base64)

\* C4 (amended): a non-empty string that starts with "data:" and has a comma
\* is decoded from the part after its first comma; every other non-empty
\* string, with a comma or not, is decoded whole.
C4_SplitOnlyDataUrl ==
    (Handled("face") /\ request.image_base64 # <<>>) =>
        locals.raw = b64decode(IF /\ HasComma(request.image_base64)
                                  /\ Len(request.image_base64) >= 5
                                  /\ \A i \in 1..5 :
                                        request.image_base64[i] = DataPrefix[i]
                               THEN AfterFirstComma(request.image_base64)
                               ELSE request.image_base64)

\* a string with a comma and no data: header, decoded whole to bytes that
\* the part after the comma does not give
C4_Witness ==
    /\ Handled("face")
    /\ HasComma(request.image_base64)
    /\ ~StartsWith(request.image_base64, DataPrefix)
    /\ locals.raw.ok
    /\ locals.raw.bytes # <<>>
    /\ locals.raw # b64decode(AfterFirstComma(request.image_base64))

\* C5: for every decodable image, brightness, sharpness, resolution score,
\* exposure score and quality lie in [0,1] when they are combined, and
\* brightness, sharpness and quality lie in [0,1] in the returned record.
C5_ScoresInUnitInterval ==
    FromImage =>
        /\ locals.brightness \in 0..One
        /\ locals.sharp \in 0..One
        /\ locals.res_score \in 0..One
        /\ locals.exposure_score \in 0..One
        /\ locals.quality \in 0..One
        /\ response.features.brightness \in 0..1000
        /\ response.features.sharpness \in 0..1000
        /\ response.quality \in 0..1000

\* the clamps act: the edge mean is above 170 and the picture above 720p
C5_Witness ==
    /\ FromImage
    /\ request.pil.edge2 > 340
    /\ request.pil.w * request.pil.h > 1280 * 720
    /\ locals.sharp = One
    /\ locals.res_score = One

QualityOf(img) == ImageLocals(img).quality

Returned(q) == RoundTo(q, One \div 1000)

\* C6: with resolution score and brightness fixed, quality does not decrease
\* when sharpness grows; with sharpness and brightness fixed, it does not
\* decrease when the resolution score grows; at sharpness 1, resolution
\* score 1 and brightness 0.5 it is exactly 1.0.
C6_QualityMonotone ==
    FromImage =>
        LET img == request.pil
        IN  /\ \A e \in EdgeVals :
                 LET other == [img EXCEPT !.edge2 = e]
                 IN  Sharp(e) > locals.sharp =>
                       /\ QualityOf(other) >= locals.quality
                       /\ \A q \in Returned(QualityOf(other)) : q >= response.quality
            /\ \A w \in Widths, h \in Heights :
                 LET other == [img EXCEPT !.w = w, !.h = h]
                 IN  ResScore(w, h) > locals.res_score =>
                       /\ QualityOf(other) >= locals.quality
                       /\ \A q \in Returned(QualityOf(other)) : q >= response.quality
            /\ (/\ locals.sharp = One
                /\ locals.res_score = One
                /\ 2 * locals.brightness = One)
               => locals.quality = One /\ response.quality = 1000

C6_Witness ==
    /\ FromImage
    /\ locals.sharp = One
    /\ locals.res_score = One
    /\ 2 * locals.brightness = One
    /\ response.quality = 1000

\* C7: the exposure score is clamp(1 - 2*|b - 0.5|, 0, 1) of the brightness
\* b: 2b up to b = 0.5 and 2(1 - b) from there on, so 1 at b = 0.5, 0 at
\* b = 0 and b = 1, and strictly smaller the farther b is from 0.5.
C7_ExposureScore ==
    FromImage =>
        LET b == locals.brightness
            far == Abs(2 * b - One)
        IN  /\ locals.exposure_score = IF 2 * b <= One THEN 2 * b ELSE 2 * (One - b)
            /\ 2 * b = One => locals.exposure_score = One
            /\ b \in {0, One} => locals.exposure_score = 0
            /\ \A g \in GrayVals :
                 Abs(2 * Brightness(g) - One) > far =>
                     ExposureScore(Brightness(g)) < locals.exposure_score

C7_Witness ==
    /\ FromImage
    /\ locals.brightness \notin {0, One \div 2, One}
    /\ locals.brightness > One \div 2
    /\ locals.exposure_score \notin {0, One}

\* C8: whenever extract_face has statistics (the sentinel included), each of
\* its five trait scores lies in [0,1].
C8_TraitsInUnitInterval ==
    Answered("face") =>
        /\ DOMAIN response.traits =
               {"clarity", "stability", "sociality", "determination", "resilience"}
        /\ \A k \in DOMAIN response.traits : response.traits[k] \in 0..100

\* the statistics are at their extremes: sharpness 1.0 and brightness 1.0
C8_Witness ==
    /\ FromImage
    /\ response.features.sharpness = 1000
    /\ response.features.brightness = 1000
    /\ response.traits.clarity = 90

\* C9: compute_saju never fails.  When parsing birth_ts (with Z read as
\* +00:00) fails, the luck timeline is 1991-2000 tagged opportunity and
\* 2001-2010 tagged neutral; when it gives year y, the periods are
\* y+1..y+10 and y+11..y+20; every other field is the same for all inputs.
C9_SajuResult ==
    Handled("saju") =>
        LET parsed == FromIsoFormat(Replace(request.birth_ts, "Z", UtcOffset))
            y == IF parsed.ok THEN parsed.year ELSE 1990
            luck == response.luck_timeline
        IN  /\ pc = "responded"
            /\ Len(luck) = 2
            /\ luck[1].start_year = y + 1 /\ luck[1].end_year = y + 10
            /\ luck[1].tag = "opportunity"
            /\ luck[2].start_year = y + 11 /\ luck[2].end_year = y + 20
            /\ luck[2].tag = "neutral"
            /\ ~parsed.ok =>
                  /\ <<luck[1].start_year, luck[1].end_year>> = <<1991, 2000>>
                  /\ <<luck[2].start_year, luck[2].end_year>> = <<2001, 2010>>
            /\ [response EXCEPT !.luck_timeline = <<>>]
                   = [SajuResult(<<>>) EXCEPT !.luck_timeline = <<>>]

\* a birth_ts that starts with a date and still fails to parse
C9_Witness ==
    /\ Answered("saju")
    /\ Len(request.birth_ts) > 10
    /\ FromIsoFormat(SubSeq(request.birth_ts, 1, 10)).ok
    /\ ~FromIsoFormat(Replace(request.birth_ts, "Z", UtcOffset)).ok
    /\ response.luck_timeline[1].start_year = 1991

\* C10: a non-empty image_base64 that decodes to non-empty bytes which are
\* not a valid image ends extract_face in an unhandled exception: no
\* sentinel and no statistics are returned.
C10_InvalidImageFails ==
    (/\ Handled("face")
     /\ request.image_base64 # <<>>
     /\ b64decode(PayloadOf(request.image_base64)).ok
     /\ b64decode(PayloadOf(request.image_base64)).bytes # <<>>
     /\ ~request.pil.valid)
    => /\ pc = "failed"
       /\ response.status = "error"
       /\ response.exc = "PIL.UnidentifiedImageError"
       /\ "quality" \notin DOMAIN response

C10_Witness ==
    /\ pc = "failed"
    /\ request.endpoint = "face"
    /\ locals.raw.ok
    /\ Len(locals.raw.bytes) >= 3
    /\ response.exc = "PIL.UnidentifiedImageError"

============================================================================
